---- MODULE Spec2Model ----
(***************************************************************************)
(* Optimistic list-delete coordinator (frontend/src/lib/list-delete.ts)    *)
(* together with the query cache, the list query's fetches and the         *)
(* mutation lifecycle that drives its four hooks (specification Spec), and *)
(* the URL sort controller (frontend/src/lib/use-url-sorting.ts) with the  *)
(* query string it holds and the router it navigates with (SortSpec), and  *)
(* the same controller next to the browser's history and to other code     *)
(* that changes the location (NavSpec), and the board access editor of the *)
(* organization page with its invite and member dialogs (EditorSpec).      *)
(***************************************************************************)
EXTENDS Integers, Sequences, FiniteSets, TLC

\* ------------------------------------------------------------------ bounds
MaxItems == 2

Attempts == {"m1", "m2"}
ItemIds == {"a", "b"}

\* the mutation's own query key and one further key of the cache
queryKey == "items"
otherKey == "boards"

\* ------------------------------------------------------- cache entry values
\* getQueryData of a key that holds nothing
Undefined == [defined |-> FALSE]

Item(i) == [id |-> i, label |-> IF i = "a" THEN "A" ELSE "B"]

getItemId(item) == item.id

RECURSIVE SeqsUpTo(_, _)
SeqsUpTo(S, n) ==
  IF n = 0 THEN {<<>>}
  ELSE LET shorter == SeqsUpTo(S, n - 1)
       IN shorter \cup {Append(s, x) : s \in {t \in shorter : Len(t) = n - 1}, x \in S}

ItemLists == SeqsUpTo({Item(i) : i \in ItemIds}, MaxItems)

\* data of a list response; the two flags carry the runtime types the shape
\* test looks at, limit stands for the fields of the page that are not
\* items or total
ListData(items, total) ==
  [itemsIsArray |-> TRUE, totalIsNumber |-> TRUE, items |-> items,
   total |-> total, limit |-> 50]

\* data the shape test rejects: items that is no array, total that is no
\* number, and data that is no object at all (neither field is there)
MalformedData ==
  { [itemsIsArray |-> FALSE, totalIsNumber |-> TRUE, items |-> <<>>,
     total |-> 1, limit |-> 50],
    [itemsIsArray |-> TRUE, totalIsNumber |-> FALSE, items |-> <<Item("a")>>,
     total |-> 0, limit |-> 50],
    [itemsIsArray |-> FALSE, totalIsNumber |-> FALSE, items |-> <<>>,
     total |-> 0, limit |-> 0] }

Entry(status, data) ==
  [defined |-> TRUE, status |-> status, data |-> data, headers |-> "h"]

\* totals a list response can carry: the page is the whole collection, the
\* collection has a further page, or the count disagrees with the page
Totals(items) == {0, Len(items), Len(items) + 1}

WellFormedEntries ==
  UNION {{Entry(200, ListData(items, total)) : total \in Totals(items)} : items \in ItemLists}

CacheEntries ==
  {Undefined}
    \cup WellFormedEntries
    \cup {Entry(200, d) : d \in MalformedData}
    \cup {Entry(404, ListData(<<Item("a")>>, 1))}

isListPayload(value) == value.itemsIsArray /\ value.totalIsNumber

\* null is modelled as Undefined
getListPayload(response) ==
  IF response.defined /\ isListPayload(response.data) THEN response.data ELSE Undefined

Max(x, y) == IF x >= y THEN x ELSE y

RECURSIVE Filter(_, _)
Filter(items, deleteId) ==
  IF items = <<>> THEN <<>>
  ELSE LET rest == Filter(Tail(items), deleteId)
       IN IF getItemId(Head(items)) # deleteId THEN <<Head(items)>> \o rest ELSE rest

OptimisticEntryUnclamped(previous, deleteId) ==
  LET payload == getListPayload(previous)
      nextItems == Filter(payload.items, deleteId)
      removedCount == Len(payload.items) - Len(nextItems)
  IN [previous EXCEPT
        !.data = [payload EXCEPT !.items = nextItems,
                                 !.total = payload.total - removedCount]]

OptimisticEntryCountsOne(previous, deleteId) ==
  LET payload == getListPayload(previous)
      nextItems == Filter(payload.items, deleteId)
  IN [previous EXCEPT
        !.data = [payload EXCEPT !.items = nextItems,
                                 !.total = Max(0, payload.total - 1)]]

OptimisticEntryFreshPage(previous, deleteId) ==
  LET payload == getListPayload(previous)
      nextItems == Filter(payload.items, deleteId)
      removedCount == Len(payload.items) - Len(nextItems)
  IN [previous EXCEPT
        !.headers = "",
        !.data = [payload EXCEPT !.items = nextItems,
                                 !.total = Max(0, payload.total - removedCount),
                                 !.limit = 0]]

\* the entry onMutate writes for an eligible previous entry
OptimisticEntry(previous, deleteId) ==
  LET payload == getListPayload(previous)
      nextItems == Filter(payload.items, deleteId)
      removedCount == Len(payload.items) - Len(nextItems)
  IN [previous EXCEPT
        !.data = [payload EXCEPT !.items = nextItems,
                                 !.total = Max(0, payload.total - removedCount)]]

EligibleAnyStatus(previous) ==
  /\ previous.defined
  /\ getListPayload(previous) # Undefined

\* previous && previous.status === 200 and a list payload
Eligible(previous) ==
  /\ previous.defined
  /\ previous.status = 200
  /\ getListPayload(previous) # Undefined

\* context?.previous is truthy
HasPrevious(ctx) == ctx.previous.defined

RestoredPartially(ctx) ==
  [ctx.previous EXCEPT !.data.total = Max(0, @ - 1)]

\* the value onError writes back
Restored(ctx) == ctx.previous

keysToInvalidateOwnOnly(option) == <<queryKey>>

keysToInvalidateWithOwn(option) ==
  IF option.given /\ Len(option.keys) > 0
  THEN (IF \E i \in 1..Len(option.keys) : option.keys[i] = queryKey
        THEN option.keys
        ELSE <<queryKey>> \o option.keys)
  ELSE <<queryKey>>

\* keys invalidated on settle
keysToInvalidate(option) ==
  IF option.given /\ Len(option.keys) > 0
  THEN option.keys
  ELSE <<queryKey>>

KeyConfigs ==
  { [given |-> FALSE, keys |-> <<>>],
    [given |-> TRUE, keys |-> <<>>],
    [given |-> TRUE, keys |-> <<queryKey>>],
    [given |-> TRUE, keys |-> <<otherKey>>],
    [given |-> TRUE, keys |-> <<queryKey, otherKey>>] }

\* the options a coordinator is constructed with: every invalidation list beside
\* a success callback, and the construction that passes neither option
Options ==
  {[invalidateQueryKeys |-> k, onSuccess |-> [given |-> TRUE]] : k \in KeyConfigs}
    \cup {[invalidateQueryKeys |-> [given |-> FALSE, keys |-> <<>>],
           onSuccess |-> [given |-> FALSE]]}

callOnSuccessWithArgument(option, calls) ==
  IF option.given THEN Append(calls, <<"data">>) ELSE calls

\* onSuccess?.(): the calls made so far, each the list of its arguments
callOnSuccess(option, calls) ==
  IF option.given THEN Append(calls, <<>>) ELSE calls

\* ------------------------------------------------------------------- state
VARIABLES
  cache,                \* entry of the query cache under queryKey
  fetch,                \* the list query's fetch: [status, data]
  server,               \* ids of the items the server holds
  invalidateQueryKeys,  \* the coordinator's option
  pc,                   \* position of each mutation attempt
  variables,            \* the input of each attempt (the id to delete)
  context,              \* what each attempt's onMutate returned
  outcome,              \* how each attempt's network call ended
  hooks,                \* the hooks run for each attempt, in order
  wrote,                \* the setQueryData calls each attempt made
  invalidated,          \* the invalidateQueries calls each attempt made
  fetchAtStart,         \* the query's fetch is the one in flight when onMutate started
  clobberedBy,          \* who else wrote the key since the attempt last read or wrote it
  onSuccess,            \* the coordinator's option: the success callback
  called,               \* the calls of the success callback each attempt made
  allowedColumnIds,     \* the sort controller's options
  defaultSorting,
  paramPrefix,
  searchParamsString,   \* the query string the sort controller holds
  router,               \* the router calls of the latest onSortingChange since the last render
  lastCall,             \* the latest onSortingChange since the last render: its input,
                        \* the string its closure captured, and the held string and
                        \* the location's when it was called
  location,             \* window.location.search without its question mark
  rendered,             \* the held string the last render's closures captured
  lastEvent,            \* what happened last: load, call, render, popstate or external
  dialog,               \* the dialog the board access editor is in: invite or member
  scope,                \* the editor's props: scope, allRead, allWrite, access
  allRead,
  allWrite,
  access,
  accessError,          \* the dialog shows "Select read or write access ..."
  submitted             \* the access data built by the latest submission

sortVars ==
  <<allowedColumnIds, defaultSorting, paramPrefix, searchParamsString, router, lastCall,
    location, rendered, lastEvent>>

accessVars == <<dialog, scope, allRead, allWrite, access, accessError, submitted>>

vars ==
  <<cache, fetch, server, invalidateQueryKeys, pc, variables, context,
    outcome, hooks, wrote, invalidated, fetchAtStart, clobberedBy,
    onSuccess, called, sortVars, accessVars>>

NoContext == [previous |-> Undefined, returned |-> FALSE]

ServerResponse(ids) ==
  LET items == IF "a" \in ids
               THEN (IF "b" \in ids THEN <<Item("a"), Item("b")>> ELSE <<Item("a")>>)
               ELSE (IF "b" \in ids THEN <<Item("b")>> ELSE <<>>)
  IN Entry(200, ListData(items, Len(items)))

\* no onSortingChange yet
NoCall ==
  [made |-> FALSE, requested |-> <<>>, searchParamsString |-> <<>>,
   held |-> <<>>, location |-> <<>>, second |-> FALSE]

\* a page whose table is never sorted
SortIdle ==
  /\ allowedColumnIds = {"name", "status"}
  /\ defaultSorting = <<[id |-> "name", desc |-> FALSE]>>
  /\ paramPrefix = "agents"
  /\ searchParamsString = <<>>
  /\ router = <<>>
  /\ lastCall = NoCall
  /\ location = <<>>
  /\ rendered = <<>>
  /\ lastEvent = "load"

\* boards of the organization; access[boardId] may be missing
Boards == {"b1", "b2"}

NoEntry == [defined |-> FALSE]

\* const defaultBoardAccess: BoardAccessState = {}
defaultBoardAccess == [boardId \in Boards |-> NoEntry]

\* the invite dialog as the page first renders it, nobody touching it
AccessIdle ==
  /\ dialog = "invite"
  /\ scope = "all"
  /\ allRead = TRUE
  /\ allWrite = FALSE
  /\ access = defaultBoardAccess
  /\ accessError = FALSE
  /\ submitted = <<>>

Init ==
  /\ cache \in CacheEntries
  /\ fetch = [status |-> "idle", data |-> Undefined]
  /\ server = ItemIds
  /\ \E o \in Options :
       /\ invalidateQueryKeys = o.invalidateQueryKeys
       /\ onSuccess = o.onSuccess
  /\ called = [a \in Attempts |-> <<>>]
  /\ SortIdle
  /\ AccessIdle
  /\ pc = [a \in Attempts |-> "idle"]
  /\ variables = [a \in Attempts |-> "a"]
  /\ context = [a \in Attempts |-> NoContext]
  /\ outcome = [a \in Attempts |-> "none"]
  /\ hooks = [a \in Attempts |-> <<>>]
  /\ wrote = [a \in Attempts |-> {}]
  /\ invalidated = [a \in Attempts |-> <<>>]
  /\ fetchAtStart = [a \in Attempts |-> FALSE]
  /\ clobberedBy = [a \in Attempts |-> "none"]

\* a write to the key by someone other than self, seen by every attempt that
\* holds a snapshot and has not settled
Clobber(self, kind) ==
  [a \in Attempts |->
     IF a # self /\ pc[a] \in {"inFlight", "completed", "handled"}
     THEN kind
     ELSE clobberedBy[a]]

\* ------------------------------------------------------- the list query
\* the list query starts a fetch (mount, refetchInterval, stale refetch)
FetchStart ==
  /\ fetch.status # "inflight"
  /\ fetch' = [status |-> "inflight", data |-> ServerResponse(server)]
  /\ fetchAtStart' = [a \in Attempts |-> FALSE]
  /\ UNCHANGED <<cache, server, invalidateQueryKeys, pc, variables, context,
                 outcome, hooks, wrote, invalidated, clobberedBy>>
  /\ UNCHANGED <<onSuccess, called, sortVars, accessVars>>

\* the response of a fetch that was not cancelled is written to the cache
FetchResponse ==
  /\ fetch.status = "inflight"
  /\ cache' = fetch.data
  /\ fetch' = [fetch EXCEPT !.status = "done", !.data = Undefined]
  /\ clobberedBy' = Clobber("fetch", "fetch")
  /\ UNCHANGED <<server, invalidateQueryKeys, pc, variables, context, outcome,
                 hooks, wrote, invalidated, fetchAtStart>>
  /\ UNCHANGED <<onSuccess, called, sortVars, accessVars>>

cancelQueriesNothing(f) == f

\* queryClient.cancelQueries({ queryKey })
cancelQueries(f) ==
  IF f.status = "inflight"
  THEN [f EXCEPT !.status = "cancelled", !.data = Undefined]
  ELSE f

\* -------------------------------------------------- the mutation's hooks
\* attempts are numbered in the order mutate is called
StartsInOrder(a) == a = "m1" \/ pc["m1"] # "idle"

\* onMutate up to its await: the cancellation request
OnMutateCancel(a, deleteId) ==
  /\ pc[a] = "idle"
  /\ StartsInOrder(a)
  /\ pc' = [pc EXCEPT ![a] = "awaitCancel"]
  /\ variables' = [variables EXCEPT ![a] = deleteId]
  /\ fetchAtStart' = [fetchAtStart EXCEPT ![a] = (fetch.status = "inflight")]
  /\ fetch' = cancelQueries(fetch)
  /\ UNCHANGED <<cache, server, invalidateQueryKeys, context, outcome,
                 hooks, wrote, invalidated, clobberedBy>>
  /\ UNCHANGED <<onSuccess, called, sortVars, accessVars>>

OnMutateResumeSnapshotAfterWrite(a) ==
  /\ pc[a] = "awaitCancel"
  /\ LET written == IF Eligible(cache) THEN OptimisticEntry(cache, variables[a]) ELSE cache
         previous == written
     IN /\ context' = [context EXCEPT ![a] = [previous |-> previous, returned |-> TRUE]]
        /\ IF Eligible(cache)
           THEN /\ cache' = written
                /\ wrote' = [wrote EXCEPT ![a] = @ \cup {"optimistic"}]
                /\ clobberedBy' = [Clobber(a, "mutation") EXCEPT ![a] = "none"]
           ELSE /\ UNCHANGED <<cache, wrote>>
                /\ clobberedBy' = [clobberedBy EXCEPT ![a] = "none"]
  /\ pc' = [pc EXCEPT ![a] = "inFlight"]
  /\ hooks' = [hooks EXCEPT ![a] = Append(@, "onMutate")]
  /\ UNCHANGED <<fetch, server, invalidateQueryKeys, variables, outcome,
                 invalidated, fetchAtStart>>
  /\ UNCHANGED <<onSuccess, called, sortVars, accessVars>>

\* onMutate after the await: snapshot, optimistic write, return of the context;
\* the mutation function is called next
OnMutateResume(a) ==
  /\ pc[a] = "awaitCancel"
  /\ LET previous == cache
     IN /\ context' = [context EXCEPT ![a] = [previous |-> previous, returned |-> TRUE]]
        /\ IF Eligible(previous)
           THEN /\ cache' = OptimisticEntry(previous, variables[a])
                /\ wrote' = [wrote EXCEPT ![a] = @ \cup {"optimistic"}]
                /\ clobberedBy' = [Clobber(a, "mutation") EXCEPT ![a] = "none"]
           ELSE /\ UNCHANGED <<cache, wrote>>
                /\ clobberedBy' = [clobberedBy EXCEPT ![a] = "none"]
  /\ pc' = [pc EXCEPT ![a] = "inFlight"]
  /\ hooks' = [hooks EXCEPT ![a] = Append(@, "onMutate")]
  /\ UNCHANGED <<fetch, server, invalidateQueryKeys, variables, outcome,
                 invalidated, fetchAtStart>>
  /\ UNCHANGED <<onSuccess, called, sortVars, accessVars>>

\* the network call of the delete completes
MutationFnSettles(a, ok) ==
  /\ pc[a] = "inFlight"
  /\ pc' = [pc EXCEPT ![a] = "completed"]
  /\ outcome' = [outcome EXCEPT ![a] = IF ok THEN "resolved" ELSE "rejected"]
  /\ server' = IF ok THEN server \ {variables[a]} ELSE server
  /\ UNCHANGED <<cache, fetch, invalidateQueryKeys, variables, context,
                 hooks, wrote, invalidated, fetchAtStart, clobberedBy>>
  /\ UNCHANGED <<onSuccess, called, sortVars, accessVars>>

OnError(a) ==
  /\ pc[a] = "completed"
  /\ outcome[a] = "rejected"
  /\ IF HasPrevious(context[a])
     THEN /\ cache' = Restored(context[a])
          /\ wrote' = [wrote EXCEPT ![a] = @ \cup {"rollback"}]
          /\ clobberedBy' = [Clobber(a, "mutation") EXCEPT ![a] = "none"]
     ELSE UNCHANGED <<cache, wrote, clobberedBy>>
  /\ pc' = [pc EXCEPT ![a] = "handled"]
  /\ hooks' = [hooks EXCEPT ![a] = Append(@, "onError")]
  /\ UNCHANGED <<fetch, server, invalidateQueryKeys, variables, context,
                 outcome, invalidated, fetchAtStart>>
  /\ UNCHANGED <<onSuccess, called, sortVars, accessVars>>

OnSuccessWhateverOutcome(a) ==
  /\ pc[a] = "completed"
  /\ pc' = [pc EXCEPT ![a] = "handled"]
  /\ hooks' = [hooks EXCEPT ![a] = Append(@, "onSuccess")]
  /\ UNCHANGED <<cache, fetch, server, invalidateQueryKeys, variables,
                 context, outcome, wrote, invalidated, fetchAtStart, clobberedBy>>
  /\ called' = [called EXCEPT ![a] = callOnSuccess(onSuccess, @)]
  /\ UNCHANGED <<onSuccess, sortVars, accessVars>>

OnSuccess(a) ==
  /\ pc[a] = "completed"
  /\ outcome[a] = "resolved"
  /\ pc' = [pc EXCEPT ![a] = "handled"]
  /\ hooks' = [hooks EXCEPT ![a] = Append(@, "onSuccess")]
  /\ UNCHANGED <<cache, fetch, server, invalidateQueryKeys, variables,
                 context, outcome, wrote, invalidated, fetchAtStart, clobberedBy>>
  /\ called' = [called EXCEPT ![a] = callOnSuccess(onSuccess, @)]
  /\ UNCHANGED <<onSuccess, sortVars, accessVars>>

OnSettled(a) ==
  /\ pc[a] = "handled"
  /\ LET keys == keysToInvalidate(invalidateQueryKeys)
     IN invalidated' = [invalidated EXCEPT ![a] = @ \o keys]
  /\ pc' = [pc EXCEPT ![a] = "settled"]
  /\ hooks' = [hooks EXCEPT ![a] = Append(@, "onSettled")]
  /\ clobberedBy' = [clobberedBy EXCEPT ![a] = "none"]
  /\ UNCHANGED <<cache, fetch, server, invalidateQueryKeys, variables, context,
                 outcome, wrote, fetchAtStart>>
  /\ UNCHANGED <<onSuccess, called, sortVars, accessVars>>

Next ==
  \/ FetchStart
  \/ FetchResponse
  \/ \E a \in Attempts, deleteId \in ItemIds : OnMutateCancel(a, deleteId)
  \/ \E a \in Attempts : OnMutateResume(a)
  \/ \E a \in Attempts, ok \in BOOLEAN : MutationFnSettles(a, ok)
  \/ \E a \in Attempts : OnError(a)
  \/ \E a \in Attempts : OnSuccess(a)
  \/ \E a \in Attempts : OnSettled(a)

Spec == Init /\ [][Next]_vars

\* ------------------------------------------------ the URL sort controller
\* raw segments of the query string a page is loaded with
MaxParams == 2

SORT_NONE_SENTINEL == "none"

\* usePathname()
pathname == "/agents"

\* an absent paramPrefix is modelled as the empty string, which is falsy as well
resolveSortParam(prefix) == IF prefix # "" THEN prefix \o "_sort" ELSE "sort"

resolveDirectionParam(prefix) == IF prefix # "" THEN prefix \o "_dir" ELSE "dir"

sortParam == resolveSortParam(paramPrefix)

directionParam == resolveDirectionParam(paramPrefix)

Prefixes == {"agents", ""}

AllowLists == {{"name", "status"}, {"name", "status", "none"}, {"status"}}

ColumnSort(id, desc) == [id |-> id, desc |-> desc]

\* no default, one column, or two of which the first is in no allow-list
Defaults ==
  { <<>>,
    <<ColumnSort("name", FALSE)>>,
    <<ColumnSort("group", FALSE), ColumnSort("status", TRUE)>> }

\* what a table can ask for: no sort, one column, or two columns, of which the
\* first is in no allow-list or in some
SortEntries == {ColumnSort(id, desc) : id \in {"name", "status", "none", "group"}, desc \in BOOLEAN}

Requests ==
  {<<>>} \cup {<<e>> : e \in SortEntries}
         \cup { <<ColumnSort("group", FALSE), ColumnSort("status", TRUE)>>,
                 <<ColumnSort("name", TRUE), ColumnSort("status", FALSE)>> }

\* an updater is a sort state, or the function that flips every direction of
\* the state it is given
Updaters ==
  {[isFunction |-> FALSE, value |-> r] : r \in Requests}
    \cup {[isFunction |-> TRUE, value |-> <<>>]}

functionalUpdate(updater, input) ==
  IF updater.isFunction
  THEN [i \in 1..Len(input) |-> ColumnSort(input[i].id, ~input[i].desc)]
  ELSE updater.value

\* a query string is the sequence of its segments between the ampersands;
\* hasEquals tells "foo=" from "foo"
Segment(name, value, hasEquals) == [name |-> name, value |-> value, hasEquals |-> hasEquals]

Segments(prefix) ==
  {Segment(resolveSortParam(prefix), v, TRUE) : v \in {"name", "status", "none", "group"}}
    \cup {Segment(resolveSortParam(prefix), "", FALSE)}
    \cup {Segment(resolveDirectionParam(prefix), v, TRUE) : v \in {"desc", "asc"}}
    \cup {Segment("foo", "1", TRUE), Segment("foo", "", FALSE)}

QueryStrings(prefix) == SeqsUpTo(Segments(prefix), MaxParams)

\* --- URLSearchParams: the ordered list of name/value pairs
Param(name, value) == [name |-> name, value |-> value]

\* new URLSearchParams(query)
URLSearchParams(query) == [i \in 1..Len(query) |-> Param(query[i].name, query[i].value)]

toStringSkipsEmpty(params) ==
  LET kept == SelectSeq(params, LAMBDA p : p.value # "")
  IN [i \in 1..Len(kept) |-> Segment(kept[i].name, kept[i].value, TRUE)]

\* params.toString(): every pair is written as name=value
toString(params) == [i \in 1..Len(params) |-> Segment(params[i].name, params[i].value, TRUE)]

\* the result of get: null, or a string
Null == [isString |-> FALSE]

Str(value) == [isString |-> TRUE, value |-> value]

\* !value for a value that is null or a string
Falsy(value) == value = Null \/ value = Str("")

has(params, name) == \E i \in 1..Len(params) : params[i].name = name

\* params.get(name): the value of the first pair of that name
get(params, name) ==
  IF has(params, name)
  THEN Str(params[CHOOSE i \in 1..Len(params) :
                    /\ params[i].name = name
                    /\ \A j \in 1..(i - 1) : params[j].name # name].value)
  ELSE Null

deleteFirstOnly(params, name) ==
  IF has(params, name)
  THEN LET first == CHOOSE i \in 1..Len(params) :
                      /\ params[i].name = name
                      /\ \A j \in 1..(i - 1) : params[j].name # name
       IN SubSeq(params, 1, first - 1) \o SubSeq(params, first + 1, Len(params))
  ELSE params

\* params.delete(name): every pair of that name goes
delete(params, name) == SelectSeq(params, LAMBDA p : p.name # name)

setPrepends(params, name, value) ==
  <<Param(name, value)>> \o SelectSeq(params, LAMBDA p : p.name # name)

\* params.set(name, value): the first pair of that name takes the value and the
\* later ones go; without such a pair one is appended
set(params, name, value) ==
  IF has(params, name)
  THEN LET first == CHOOSE i \in 1..Len(params) :
                      /\ params[i].name = name
                      /\ \A j \in 1..(i - 1) : params[j].name # name
       IN SubSeq(params, 1, first - 1)
            \o <<Param(name, value)>>
            \o SelectSeq(SubSeq(params, first + 1, Len(params)), LAMBDA p : p.name # name)
  ELSE Append(params, Param(name, value))

\* --- the hook
normalizeSortingFirstOnly(value, allowed) ==
  IF value # <<>> /\ Head(value).id \in allowed
  THEN <<ColumnSort(Head(value).id, Head(value).desc)>>
  ELSE <<>>

RECURSIVE normalizeSorting(_, _)
normalizeSorting(value, allowed) ==
  IF value = <<>> THEN <<>>
  ELSE IF Head(value).id \notin allowed
       THEN normalizeSorting(Tail(value), allowed)
       ELSE <<ColumnSort(Head(value).id, Head(value).desc)>>

isSameSortingByReference(a, b) == FALSE

isSameSorting(a, b) ==
  IF Len(a) # Len(b) THEN FALSE
  ELSE IF Len(a) = 0 THEN TRUE
  ELSE a[1].id = b[1].id /\ a[1].desc = b[1].desc

normalizedDefaultSorting == normalizeSorting(defaultSorting, allowedColumnIds)

sortingAllowListFirst(query) ==
  LET searchParams == URLSearchParams(query)
      sortValue == get(searchParams, sortParam)
  IN IF Falsy(sortValue) THEN normalizedDefaultSorting
     ELSE IF sortValue.value \in allowedColumnIds
          THEN <<ColumnSort(sortValue.value, get(searchParams, directionParam) = Str("desc"))>>
          ELSE IF sortValue = Str(SORT_NONE_SENTINEL) THEN <<>>
          ELSE normalizedDefaultSorting

sortingAbsentReadsEmpty(query) ==
  LET searchParams == URLSearchParams(query)
      sortValue == get(searchParams, sortParam)
  IN IF Falsy(sortValue) THEN <<>>
     ELSE IF sortValue = Str(SORT_NONE_SENTINEL) THEN <<>>
     ELSE IF sortValue.value \notin allowedColumnIds THEN normalizedDefaultSorting
     ELSE <<ColumnSort(sortValue.value, get(searchParams, directionParam) = Str("desc"))>>

sortingDescUnlessAsc(query) ==
  LET searchParams == URLSearchParams(query)
      sortValue == get(searchParams, sortParam)
  IN IF Falsy(sortValue) THEN normalizedDefaultSorting
     ELSE IF sortValue = Str(SORT_NONE_SENTINEL) THEN <<>>
     ELSE IF sortValue.value \notin allowedColumnIds THEN normalizedDefaultSorting
     ELSE <<ColumnSort(sortValue.value, get(searchParams, directionParam) # Str("asc"))>>

sortingTrustsUrl(query) ==
  LET searchParams == URLSearchParams(query)
      sortValue == get(searchParams, sortParam)
  IN IF Falsy(sortValue) THEN normalizedDefaultSorting
     ELSE IF sortValue = Str(SORT_NONE_SENTINEL) THEN <<>>
     ELSE <<ColumnSort(sortValue.value, get(searchParams, directionParam) = Str("desc"))>>

sortingFirstParam(query) ==
  LET searchParams == URLSearchParams(query)
      sortValue == IF searchParams = <<>> THEN Null ELSE Str(searchParams[1].value)
  IN IF Falsy(sortValue) THEN normalizedDefaultSorting
     ELSE IF sortValue = Str(SORT_NONE_SENTINEL) THEN <<>>
     ELSE IF sortValue.value \notin allowedColumnIds THEN normalizedDefaultSorting
     ELSE <<ColumnSort(sortValue.value, get(searchParams, directionParam) = Str("desc"))>>

sortingInvalidReadsEmpty(query) ==
  LET searchParams == URLSearchParams(query)
      sortValue == get(searchParams, sortParam)
  IN IF Falsy(sortValue) THEN normalizedDefaultSorting
     ELSE IF sortValue = Str(SORT_NONE_SENTINEL) THEN <<>>
     ELSE IF sortValue.value \notin allowedColumnIds THEN <<>>
     ELSE <<ColumnSort(sortValue.value, get(searchParams, directionParam) = Str("desc"))>>

\* the sort state derived from the held query string
sorting(query) ==
  LET searchParams == URLSearchParams(query)
      sortValue == get(searchParams, sortParam)
  IN IF Falsy(sortValue) THEN normalizedDefaultSorting
     ELSE IF sortValue = Str(SORT_NONE_SENTINEL) THEN <<>>
     ELSE IF sortValue.value \notin allowedColumnIds THEN normalizedDefaultSorting
     ELSE <<ColumnSort(sortValue.value, get(searchParams, directionParam) = Str("desc"))>>

directionValueUpperCase(desc) == IF desc THEN "DESC" ELSE "ASC"

\* primary.desc ? "desc" : "asc"
directionValue(desc) == IF desc THEN "desc" ELSE "asc"

rewriteDefaultFirst(nextParams, nextSorting) ==
  IF isSameSorting(nextSorting, normalizedDefaultSorting)
  THEN delete(delete(nextParams, sortParam), directionParam)
  ELSE IF Len(nextSorting) = 0
       THEN delete(set(nextParams, sortParam, SORT_NONE_SENTINEL), directionParam)
       ELSE set(set(nextParams, sortParam, nextSorting[1].id),
                directionParam, directionValue(nextSorting[1].desc))

\* the parameters onSortingChange ends with, from the clone of the held ones
rewrite(nextParams, nextSorting) ==
  IF Len(nextSorting) = 0
  THEN delete(set(nextParams, sortParam, SORT_NONE_SENTINEL), directionParam)
  ELSE IF isSameSorting(nextSorting, normalizedDefaultSorting)
       THEN delete(delete(nextParams, sortParam), directionParam)
       ELSE set(set(nextParams, sortParam, nextSorting[1].id),
                directionParam, directionValue(nextSorting[1].desc))

\* query ? `${pathname}?${query}` : pathname
href(query) == [pathname |-> pathname, questionMark |-> query # <<>>, query |-> query]

\* the mutation side of a page that deletes nothing
ListIdle ==
  /\ cache = Undefined
  /\ fetch = [status |-> "idle", data |-> Undefined]
  /\ server = ItemIds
  /\ invalidateQueryKeys = [given |-> FALSE, keys |-> <<>>]
  /\ onSuccess = [given |-> FALSE]
  /\ pc = [a \in Attempts |-> "idle"]
  /\ variables = [a \in Attempts |-> "a"]
  /\ context = [a \in Attempts |-> NoContext]
  /\ outcome = [a \in Attempts |-> "none"]
  /\ hooks = [a \in Attempts |-> <<>>]
  /\ wrote = [a \in Attempts |-> {}]
  /\ invalidated = [a \in Attempts |-> <<>>]
  /\ fetchAtStart = [a \in Attempts |-> FALSE]
  /\ clobberedBy = [a \in Attempts |-> "none"]
  /\ called = [a \in Attempts |-> <<>>]

\* the hook's first render: the held string is the location's search
SortInit ==
  /\ allowedColumnIds \in AllowLists
  /\ defaultSorting \in Defaults
  /\ paramPrefix \in Prefixes
  /\ location \in QueryStrings(paramPrefix)
  /\ searchParamsString = location
  /\ rendered = searchParamsString
  /\ router = <<>>
  /\ lastCall = NoCall
  /\ lastEvent = "load"
  /\ ListIdle
  /\ AccessIdle

listVars ==
  <<cache, fetch, server, invalidateQueryKeys, pc, variables, context,
    outcome, hooks, wrote, invalidated, fetchAtStart, clobberedBy,
    onSuccess, called>>

routerPush(url, options) ==
  [method |-> "push", href |-> url, scroll |-> options.scroll]

\* router.replace(url, options)
routerReplace(url, options) ==
  [method |-> "replace", href |-> url, scroll |-> options.scroll]

\* The callback of the last render: sorting and searchParamsString are the
\* values that render captured.  router.replace changes the location at once
\* and raises no popstate event.
onSortingChange(updater) ==
  LET current == sorting(rendered)
      requested == functionalUpdate(updater, current)
      nextSorting == normalizeSorting(requested, allowedColumnIds)
  IN /\ lastCall' = [made |-> TRUE, requested |-> requested,
                      searchParamsString |-> rendered,
                      held |-> searchParamsString,
                      location |-> location,
                      second |-> lastEvent = "call"]
     /\ lastEvent' = "call"
     /\ IF isSameSorting(nextSorting, current)
        THEN /\ router' = <<>>
             /\ UNCHANGED <<searchParamsString, location>>
        ELSE LET nextParams == URLSearchParams(rendered)
                 query == toString(rewrite(nextParams, nextSorting))
             IN /\ searchParamsString' = query
                /\ router' = <<routerReplace(href(query), [scroll |-> FALSE])>>
                /\ location' = query
     /\ UNCHANGED <<allowedColumnIds, defaultSorting, paramPrefix, rendered>>
     /\ UNCHANGED <<listVars, accessVars>>

\* The re-render after setSearchParamsString: the read path runs on the held
\* string and the callback is made anew.
Render ==
  /\ rendered # searchParamsString
  /\ rendered' = searchParamsString
  /\ lastEvent' = "render"
  /\ router' = <<>>
  /\ lastCall' = NoCall
  /\ UNCHANGED <<allowedColumnIds, defaultSorting, paramPrefix, searchParamsString, location>>
  /\ UNCHANGED <<listVars, accessVars>>

\* one onSortingChange per render, as a click on a column header makes
Click ==
  /\ rendered = searchParamsString
  /\ \E updater \in Updaters : onSortingChange(updater)

SortNext == Click \/ Render

SortSpec == SortInit /\ [][SortNext]_vars

\* ----------------------------------------- the controller and its browser
\* The page of the agents table next to whatever else changes the location:
\* the history buttons, and a second controller with the prefix "boards".
otherSortParam == resolveSortParam("boards")

NavQueries ==
  { <<>>,
    <<Segment("foo", "1", TRUE)>>,
    <<Segment("agents_sort", "group", TRUE)>>,
    <<Segment("agents_sort", "none", TRUE)>>,
    <<Segment("agents_sort", "status", TRUE), Segment("agents_dir", "desc", TRUE)>>,
    <<Segment(otherSortParam, "name", TRUE), Segment("agents_sort", "status", TRUE)>> }

\* what the page asks for: a column, the default, no sorting
NavUpdaters ==
  { [isFunction |-> FALSE, value |-> r] :
      r \in { <<ColumnSort("status", TRUE)>>, <<ColumnSort("name", FALSE)>>, <<>> } }

NavInit ==
  /\ allowedColumnIds = {"name", "status"}
  /\ defaultSorting = <<ColumnSort("name", FALSE)>>
  /\ paramPrefix = "agents"
  /\ location \in NavQueries
  /\ searchParamsString = location
  /\ rendered = searchParamsString
  /\ router = <<>>
  /\ lastCall = NoCall
  /\ lastEvent = "load"
  /\ ListIdle
  /\ AccessIdle

PopstateKeepsHeld(query) ==
  /\ location' = query
  /\ UNCHANGED searchParamsString
  /\ lastEvent' = "popstate"
  /\ UNCHANGED <<allowedColumnIds, defaultSorting, paramPrefix, router, lastCall, rendered>>
  /\ UNCHANGED <<listVars, accessVars>>

\* The browser moves in its history to an entry whose query string is query
\* and raises popstate; syncFromLocation stores the location's search.
Popstate(query) ==
  /\ location' = query
  /\ searchParamsString' = location'
  /\ lastEvent' = "popstate"
  /\ UNCHANGED <<allowedColumnIds, defaultSorting, paramPrefix, router, lastCall, rendered>>
  /\ UNCHANGED <<listVars, accessVars>>

\* The other controller writes its sort parameter with router.replace, which
\* raises no popstate: the effect of this controller does not run.
ExternalReplace(value) ==
  LET query == toString(set(URLSearchParams(location), otherSortParam, value))
  IN /\ query # location
     /\ location' = query
     /\ lastEvent' = "external"
     /\ UNCHANGED <<allowedColumnIds, defaultSorting, paramPrefix, searchParamsString,
                    router, lastCall, rendered>>
     /\ UNCHANGED <<listVars, accessVars>>

\* onSortingChange whenever the page calls it, re-rendered since or not
Call == \E updater \in NavUpdaters : onSortingChange(updater)

NavNext ==
  \/ Call
  \/ Render
  \/ \E query \in NavQueries : Popstate(query)
  \/ ExternalReplace("name")

NavSpec == NavInit /\ [][NavNext]_vars

\* ------------------------------------------------ the board access editor
\* The organization page's two dialogs around BoardAccessEditor.  The
\* editor's props are the page's state: the invite dialog's own, or for the
\* member dialog the override if one was set and else the value derived from
\* the member's details, which stay as loaded while the dialog is open.
BoardEntry(read, write) == [defined |-> TRUE, read |-> read, write |-> write]

\* an entry of board_access as the server sends it
OrganizationBoardAccessSpec(can_read, can_write) ==
  [defined |-> TRUE, can_read |-> can_read, can_write |-> can_write]

\* the member details a response can carry; NoEntry for details not loaded
MemberDetails ==
  { [all_boards_read |-> r, all_boards_write |-> w, board_access |-> b] :
      r \in BOOLEAN, w \in BOOLEAN,
      b \in [Boards -> {NoEntry} \cup {OrganizationBoardAccessSpec(cr, cw) : cr \in BOOLEAN, cw \in BOOLEAN}] }

\* OrganizationPage defaultAccess
defaultAccess(memberDetails) ==
  [scope |-> IF memberDetails.all_boards_read \/ memberDetails.all_boards_write
             THEN "all" ELSE "custom",
   allRead |-> memberDetails.all_boards_read,
   allWrite |-> memberDetails.all_boards_write,
   access |-> [boardId \in Boards |->
                 LET entry == memberDetails.board_access[boardId]
                 IN IF entry.defined
                    THEN BoardEntry(entry.can_read \/ entry.can_write, entry.can_write)
                    ELSE NoEntry]]

\* access[boardId] ?? { read: false, write: false }
entryOf(boardId) ==
  IF access[boardId].defined THEN access[boardId] ELSE BoardEntry(FALSE, FALSE)

\* the list's order is that of the object's keys and is left out
buildAccessList(state) ==
  { [board_id |-> boardId,
     can_read |-> state[boardId].read \/ state[boardId].write,
     can_write |-> state[boardId].write] :
      boardId \in {b \in Boards :
                     state[b].defined /\ (state[b].read \/ state[b].write)} }

\* the invite dialog, or the member dialog of a member whose details loaded
AccessInit ==
  /\ \/ /\ dialog = "invite"
        /\ scope = "all"
        /\ allRead = TRUE
        /\ allWrite = FALSE
        /\ access = defaultBoardAccess
     \/ /\ dialog = "member"
        /\ \E memberDetails \in MemberDetails :
             LET loaded == defaultAccess(memberDetails)
             IN /\ scope = loaded.scope
                /\ allRead = loaded.allRead
                /\ allWrite = loaded.allWrite
                /\ access = loaded.access
  /\ accessError = FALSE
  /\ submitted = <<>>
  /\ ListIdle
  /\ SortIdle

accessFrame == UNCHANGED <<listVars, sortVars>>

onScopeChange(next) ==
  /\ scope' = next
  /\ UNCHANGED <<dialog, allRead, allWrite, access, accessError, submitted>>
  /\ accessFrame

handleAllReadToggle ==
  /\ scope = "all"
  /\ LET next == ~allRead
     IN /\ allRead' = next
        /\ allWrite' = IF ~next /\ allWrite THEN FALSE ELSE allWrite
  /\ UNCHANGED <<dialog, scope, access, accessError, submitted>>
  /\ accessFrame

handleAllWriteToggle ==
  /\ scope = "all"
  /\ LET next == ~allWrite
     IN /\ allWrite' = next
        /\ allRead' = IF next /\ ~allRead THEN TRUE ELSE allRead
  /\ UNCHANGED <<dialog, scope, access, accessError, submitted>>
  /\ accessFrame

updateBoardAccess(boardId, next) ==
  /\ access' = [access EXCEPT ![boardId] = BoardEntry(next.read \/ next.write, next.write)]
  /\ UNCHANGED <<dialog, scope, allRead, allWrite, accessError, submitted>>
  /\ accessFrame

handleBoardReadToggle(boardId) ==
  /\ scope = "custom"
  /\ LET current == entryOf(boardId)
         nextRead == ~current.read
         nextWrite == IF nextRead THEN current.write ELSE FALSE
     IN updateBoardAccess(boardId, [read |-> nextRead, write |-> nextWrite])

handleBoardWriteToggle(boardId) ==
  /\ scope = "custom"
  /\ LET current == entryOf(boardId)
         nextWrite == ~current.write
         nextRead == IF nextWrite THEN TRUE ELSE current.read
     IN updateBoardAccess(boardId, [read |-> nextRead, write |-> nextWrite])

\* what handleInviteSubmit and handleSaveAccess do with the editor's state,
\* the caller being an admin and the other fields of the dialog valid
submit ==
  LET hasAllAccess == scope = "all" /\ (allRead \/ allWrite)
      accessList == buildAccessList(access)
      hasCustomAccess == scope = "custom" /\ accessList # {}
  IN /\ IF ~hasAllAccess /\ ~hasCustomAccess
        THEN /\ accessError' = TRUE
             /\ UNCHANGED submitted
        ELSE /\ accessError' = FALSE
             /\ submitted' =
                  <<[all_boards_read |-> IF scope = "all" THEN allRead ELSE FALSE,
                     all_boards_write |-> IF scope = "all" THEN allWrite ELSE FALSE,
                     board_access |-> IF scope = "custom" THEN accessList ELSE {}]>>
     /\ UNCHANGED <<dialog, scope, allRead, allWrite, access>>
     /\ accessFrame

handleInviteSubmit == dialog = "invite" /\ submit

handleSaveAccess == dialog = "member" /\ submit

AccessNext ==
  \/ \E next \in {"all", "custom"} : onScopeChange(next)
  \/ handleAllReadToggle
  \/ handleAllWriteToggle
  \/ \E boardId \in Boards : handleBoardReadToggle(boardId)
  \/ \E boardId \in Boards : handleBoardWriteToggle(boardId)
  \/ handleInviteSubmit
  \/ handleSaveAccess

EditorSpec == AccessInit /\ [][AccessNext]_vars

\* -------------------------------------------------------------- properties
\* vocabulary of the properties
Present(deleteId, items) == \E i \in 1..Len(items) : items[i].id = deleteId

Occurrences(deleteId, items) == Cardinality({i \in 1..Len(items) : items[i].id = deleteId})

WellFormed(entry) ==
  entry.defined /\ entry.status = 200 /\ entry.data.itemsIsArray /\ entry.data.totalIsNumber

\* the attempt's onMutate has returned and nobody else has written the key since
JustBegan(a) == pc[a] = "inFlight" /\ clobberedBy[a] = "none"

\* C1: after onMutate and then onError with the context onMutate returned, the
\* cache entry equals the snapshot taken before onMutate (nobody else having
\* written the key in between).
C1_RollbackRestoresSnapshot ==
  \A a \in Attempts :
    (pc[a] = "handled" /\ outcome[a] = "rejected" /\ clobberedBy[a] = "none")
      => cache = context[a].previous

C1_Witness ==
  \E a \in Attempts :
    /\ pc[a] = "handled"
    /\ hooks[a] = <<"onMutate", "onError">>
    /\ wrote[a] = {"optimistic", "rollback"}
    /\ clobberedBy[a] = "none"
    /\ cache = context[a].previous
    /\ cache # OptimisticEntry(context[a].previous, variables[a])

\* C2: between the optimistic write of onMutate and onSettled, no fetch
\* response replaces the optimistic entry.
C2_OptimisticIsLastWriteUntilSettle ==
  \A a \in Attempts :
    (pc[a] \in {"inFlight", "completed", "handled"} /\ wrote[a] = {"optimistic"})
      => clobberedBy[a] # "fetch"

\* C3: for a well-formed status-200 entry and an identity present in items,
\* onMutate writes items with exactly one element fewer and total exactly one
\* less, never below zero.
C3_RemovesExactlyOne ==
  \A a \in Attempts :
    (/\ JustBegan(a)
     /\ WellFormed(context[a].previous)
     /\ Present(variables[a], context[a].previous.data.items))
      => /\ Len(cache.data.items) = Len(context[a].previous.data.items) - 1
         /\ cache.data.total = context[a].previous.data.total - 1
         /\ cache.data.total >= 0

\* C3 as amended: every item with the identity is removed (one when the identity
\* occurs once), total drops by the number removed and stops at zero.
C3_RemovesAllMatching ==
  \A a \in Attempts :
    (/\ JustBegan(a)
     /\ WellFormed(context[a].previous)
     /\ Present(variables[a], context[a].previous.data.items))
      => LET before == context[a].previous.data
             n == Occurrences(variables[a], before.items)
         IN /\ cache.data.items = SelectSeq(before.items, LAMBDA item : item.id # variables[a])
            /\ Len(cache.data.items) = Len(before.items) - n
            /\ cache.data.total >= 0
            /\ before.total >= n => cache.data.total = before.total - n
            /\ before.total < n => cache.data.total = 0
            /\ (n = 1 /\ before.total >= 1)
                 => /\ Len(cache.data.items) = Len(before.items) - 1
                    /\ cache.data.total = before.total - 1

C3_Witness ==
  \E a \in Attempts :
    /\ JustBegan(a)
    /\ "optimistic" \in wrote[a]
    /\ WellFormed(context[a].previous)
    /\ Occurrences(variables[a], context[a].previous.data.items) = 2
    /\ context[a].previous.data.total = 0

\* C4: for a well-formed status-200 entry and an identity that matches no item,
\* onMutate leaves items and total of the entry unchanged.
C4_AbsentIdentityChangesNothing ==
  \A a \in Attempts :
    (/\ JustBegan(a)
     /\ WellFormed(context[a].previous)
     /\ ~Present(variables[a], context[a].previous.data.items))
      => /\ cache.data.items = context[a].previous.data.items
         /\ cache.data.total = context[a].previous.data.total

C4_Witness ==
  \E a \in Attempts :
    /\ JustBegan(a)
    /\ "optimistic" \in wrote[a]
    /\ context[a].previous.data.items # <<>>
    /\ ~Present(variables[a], context[a].previous.data.items)
    /\ cache = context[a].previous

\* C5: onSettled invalidates every configured key exactly once per attempt,
\* after success and after failure, and nothing is invalidated before it.
ConfiguredKeys ==
  IF invalidateQueryKeys.given /\ invalidateQueryKeys.keys # <<>>
  THEN {invalidateQueryKeys.keys[i] : i \in 1..Len(invalidateQueryKeys.keys)}
  ELSE {queryKey}

TimesInvalidated(a, key) ==
  Cardinality({i \in 1..Len(invalidated[a]) : invalidated[a][i] = key})

C5_SettleInvalidatesEachKeyOnce ==
  \A a \in Attempts :
    /\ pc[a] = "settled"
         => \A key \in {queryKey, otherKey} :
              TimesInvalidated(a, key) = IF key \in ConfiguredKeys THEN 1 ELSE 0
    /\ pc[a] # "settled" => invalidated[a] = <<>>

C5_Witness ==
  /\ invalidateQueryKeys.keys = <<queryKey, otherKey>>
  /\ \A a \in Attempts : pc[a] = "settled"
  /\ outcome["m1"] = "resolved"
  /\ outcome["m2"] = "rejected"
  /\ \A a \in Attempts : invalidated[a] = <<queryKey, otherKey>>

\* C6: for an attempt whose network call completed, exactly one of onSuccess and
\* onError runs, the one that matches the outcome, after onMutate has returned,
\* and onSettled runs exactly once after it.
HookFor(a) == IF outcome[a] = "resolved" THEN "onSuccess" ELSE "onError"

C7_InFlightFetchCancelled ==
  \A a \in Attempts :
    (pc[a] # "idle" /\ fetchAtStart[a]) => fetch.status = "cancelled"

C7_Witness ==
  \E a \in Attempts :
    /\ pc[a] = "inFlight"
    /\ fetchAtStart[a]
    /\ fetch.status = "cancelled"
    /\ wrote[a] = {"optimistic"}
    /\ cache # context[a].previous

\* C8: between the cancellation request of onMutate and its optimistic write no
\* other code reads or writes the key or starts a fetch for it.
C8_OnBeginAtomic ==
  [][\A a \in Attempts :
       (pc[a] = "awaitCancel" /\ pc'[a] = "awaitCancel")
         => /\ cache' = cache
            /\ context' = context
            /\ ~(fetch.status # "inflight" /\ fetch'.status = "inflight")]_vars

\* C9: when the entry is absent, has a status other than 200 or a payload that is
\* not a list payload, onMutate writes nothing and returns the entry it read.
C9_IneligibleEntryPassedThrough ==
  \A a \in Attempts :
    (/\ context[a].returned
     /\ \/ ~context[a].previous.defined
        \/ context[a].previous.status # 200
        \/ ~(context[a].previous.data.itemsIsArray /\ context[a].previous.data.totalIsNumber))
      => /\ "optimistic" \notin wrote[a]
         /\ JustBegan(a) => cache = context[a].previous

C9_Witness ==
  \E a \in Attempts :
    /\ JustBegan(a)
    /\ context[a].previous.defined
    /\ context[a].previous.status = 404
    /\ isListPayload(context[a].previous.data)
    /\ wrote[a] = {}
    /\ cache = context[a].previous

\* C10: when onMutate skipped the optimistic step because the entry was absent or
\* its payload malformed, onError performs no cache write.
C10_RollbackNoOpAfterSkip ==
  \A a \in Attempts :
    (/\ context[a].returned
     /\ \/ ~context[a].previous.defined
        \/ ~(context[a].previous.data.itemsIsArray /\ context[a].previous.data.totalIsNumber))
      => "rollback" \notin wrote[a]

\* C11: each attempt captures exactly one previous value, read before that
\* attempt's optimistic write; once captured it never changes, whatever is
\* written to the cache later and whatever another attempt's onMutate captures.
C11_OneSnapshotBeforeWrite ==
  /\ [](\A a \in Attempts :
          context[a].returned <=> pc[a] \in {"inFlight", "completed", "handled", "settled"})
  /\ [][\A a \in Attempts :
         /\ context[a].returned => context'[a] = context[a]
         /\ context'[a] # context[a]
              => /\ pc[a] = "awaitCancel"
                 /\ context'[a].returned
                 /\ context'[a].previous = cache
                 /\ \A b \in Attempts \ {a} : context'[b] = context[b]
         /\ ("optimistic" \notin wrote[a] /\ "optimistic" \in wrote'[a])
              => /\ ~context[a].returned
                 /\ context'[a].previous = cache
                 /\ cache' = OptimisticEntry(context'[a].previous, variables[a])]_vars

C11_Witness ==
  /\ context["m1"].returned
  /\ context["m2"].returned
  /\ wrote["m1"] = {"optimistic"}
  /\ wrote["m2"] = {"optimistic"}
  /\ context["m1"].previous # context["m2"].previous
  /\ cache # context["m1"].previous
  /\ cache # context["m2"].previous

\* C12: onSuccess calls the configured success callback exactly once, with no
\* arguments, and calls nothing when no callback is configured; it writes
\* nothing to the cache, invalidates nothing and touches no fetch or context.
C12_OnSuccessOnlyCallsBack ==
  /\ [](\A a \in Attempts :
          called[a] = IF onSuccess.given /\ (\E i \in 1..Len(hooks[a]) : hooks[a][i] = "onSuccess")
                      THEN << <<>> >>
                      ELSE <<>>)
  /\ [][\A a \in Attempts :
         hooks'[a] = Append(hooks[a], "onSuccess")
           => /\ called'[a] = IF onSuccess.given THEN Append(called[a], <<>>) ELSE called[a]
              /\ cache' = cache
              /\ fetch' = fetch
              /\ context' = context
              /\ wrote' = wrote
              /\ invalidated' = invalidated]_vars

C12_Witness ==
  /\ onSuccess.given
  /\ hooks["m1"] = <<"onMutate", "onSuccess">>
  /\ called["m1"] = << <<>> >>
  /\ wrote["m1"] = {"optimistic"}
  /\ invalidated["m1"] = <<>>
  /\ cache = OptimisticEntry(context["m1"].previous, variables["m1"])
  /\ cache # context["m1"].previous

\* C13: onSettled invalidates the explicit list when one is configured, and only
\* the mutation's own key when the list is absent or empty; with an explicit
\* list the own key is invalidated only if the list holds it.
C13_InvalidatesListOrOwnKey ==
  \A a \in Attempts :
    pc[a] = "settled"
      => LET explicit == invalidateQueryKeys.given /\ invalidateQueryKeys.keys # <<>>
             listed(key) == \E i \in 1..Len(invalidateQueryKeys.keys) :
                              invalidateQueryKeys.keys[i] = key
         IN /\ explicit => invalidated[a] = invalidateQueryKeys.keys
            /\ ~explicit => invalidated[a] = <<queryKey>>
            /\ (explicit /\ ~listed(queryKey)) => TimesInvalidated(a, queryKey) = 0

C13_Witness ==
  /\ invalidateQueryKeys = [given |-> TRUE, keys |-> <<otherKey>>]
  /\ pc["m1"] = "settled"
  /\ outcome["m1"] = "resolved"
  /\ invalidated["m1"] = <<otherKey>>

\* ------------------------------------- properties of the sort controller
\* the sort state the latest onSortingChange was asked for, normalized
Asked == normalizeSorting(lastCall.requested, allowedColumnIds)

\* the sort state the latest onSortingChange started from
Was == sorting(lastCall.searchParamsString)

\* the parameters of a query string that are not the controller's own two
Unrelated(query) ==
  SelectSeq(URLSearchParams(query), LAMBDA p : p.name \notin {sortParam, directionParam})

\* C14: a normalized, non-empty sort state other than the normalized default,
\* written through onSortingChange, is read back from the resulting query
\* string with the same column and direction.
C14_RoundTrip ==
  (lastCall.made /\ Asked # <<>> /\ Asked # normalizedDefaultSorting)
    => sorting(searchParamsString) = Asked

\* C14 as amended: the round trip holds for every such state whose column is
\* not named like the sentinel; a state on a column named "none" is written as
\* the sentinel and reads back as the empty state.
C14_RoundTripExceptSentinel ==
  (lastCall.made /\ Asked # <<>> /\ Asked # normalizedDefaultSorting)
    => IF Asked[1].id = SORT_NONE_SENTINEL
       THEN sorting(searchParamsString) = <<>>
       ELSE sorting(searchParamsString) = Asked

C14_Witness ==
  /\ lastCall.made
  /\ router # <<>>
  /\ Asked = <<ColumnSort("status", TRUE)>>
  /\ normalizedDefaultSorting = <<ColumnSort("name", FALSE)>>
  /\ Was = <<ColumnSort("name", TRUE)>>
  /\ sorting(searchParamsString) = <<ColumnSort("status", TRUE)>>

\* C15: when the requested sort state, normalized, equals the current one by
\* value, onSortingChange navigates nowhere and the held query string stays,
\* also for [] asked while the URL carries the sentinel.
C15_SameSortingIsNoOp ==
  (lastCall.made /\ Asked = Was)
    => /\ router = <<>>
       /\ searchParamsString = lastCall.searchParamsString

C15_Witness ==
  /\ lastCall.made
  /\ lastCall.requested = <<>>
  /\ get(URLSearchParams(lastCall.searchParamsString), sortParam) = Str(SORT_NONE_SENTINEL)
  /\ normalizedDefaultSorting # <<>>
  /\ router = <<>>
  /\ searchParamsString = lastCall.searchParamsString

\* C16: a rewrite keeps every parameter other than the controller's sort and
\* direction parameters, with its name, its value and its place among the
\* others, and adds none; the navigation carries the same parameters.
C16_UnrelatedParamsKept ==
  lastCall.made
    => /\ Unrelated(searchParamsString) = Unrelated(lastCall.searchParamsString)
       /\ router # <<>>
            => Unrelated(router[1].href.query) = Unrelated(lastCall.searchParamsString)

C16_Witness ==
  /\ lastCall.made
  /\ router # <<>>
  /\ Len(Unrelated(lastCall.searchParamsString)) = 2
  /\ Unrelated(lastCall.searchParamsString)[1] # Unrelated(lastCall.searchParamsString)[2]
  /\ URLSearchParams(searchParamsString) # URLSearchParams(lastCall.searchParamsString)
  /\ Unrelated(searchParamsString) = Unrelated(lastCall.searchParamsString)

\* C17: a non-empty sort state that differs from the current one and from the
\* normalized default is written as the sort parameter holding the column id and
\* the direction parameter holding "desc" or "asc"; when neither parameter was
\* there, both are appended to the existing ones, sort before direction.
C17_WritesSortThenDirection ==
  (lastCall.made /\ Asked # <<>> /\ Asked # Was /\ Asked # normalizedDefaultSorting)
    => LET before == URLSearchParams(lastCall.searchParamsString)
           after == URLSearchParams(searchParamsString)
           direction == IF Asked[1].desc THEN "desc" ELSE "asc"
       IN /\ get(after, sortParam) = Str(Asked[1].id)
          /\ get(after, directionParam) = Str(direction)
          /\ Len(SelectSeq(after, LAMBDA p : p.name = sortParam)) = 1
          /\ Len(SelectSeq(after, LAMBDA p : p.name = directionParam)) = 1
          /\ (~has(before, sortParam) /\ ~has(before, directionParam))
               => searchParamsString =
                    toString(before) \o <<Segment(sortParam, Asked[1].id, TRUE),
                                           Segment(directionParam, direction, TRUE)>>
          /\ router = <<[method |-> "replace", href |-> href(searchParamsString), scroll |-> FALSE]>>

\* from ?foo=1, {status, desc} gives ?foo=1&agents_sort=status&agents_dir=desc
C17_Witness ==
  /\ lastCall.made
  /\ allowedColumnIds = {"name", "status"}
  /\ defaultSorting = <<ColumnSort("name", FALSE)>>
  /\ paramPrefix = "agents"
  /\ lastCall.searchParamsString = <<Segment("foo", "1", TRUE)>>
  /\ lastCall.requested = <<ColumnSort("status", TRUE)>>
  /\ searchParamsString = <<Segment("foo", "1", TRUE),
                             Segment("agents_sort", "status", TRUE),
                             Segment("agents_dir", "desc", TRUE)>>
  /\ router[1].href.questionMark

\* C18: a non-empty sort state that equals the normalized default and differs
\* from the current one is written by removing the sort and the direction
\* parameter; every other parameter stays.
C18_DefaultCollapses ==
  (lastCall.made /\ Asked # <<>> /\ Asked = normalizedDefaultSorting /\ Asked # Was)
    => /\ URLSearchParams(searchParamsString) = Unrelated(lastCall.searchParamsString)
       /\ router = <<[method |-> "replace", href |-> href(searchParamsString), scroll |-> FALSE]>>

\* from ?foo=1&agents_sort=status&agents_dir=desc, [{name, asc}] gives ?foo=1
C18_Witness ==
  /\ lastCall.made
  /\ defaultSorting = <<ColumnSort("name", FALSE)>>
  /\ paramPrefix = "agents"
  /\ lastCall.searchParamsString = <<Segment("foo", "1", TRUE),
                                      Segment("agents_sort", "status", TRUE),
                                      Segment("agents_dir", "desc", TRUE)>>
  /\ lastCall.requested = <<ColumnSort("name", FALSE)>>
  /\ searchParamsString = <<Segment("foo", "1", TRUE)>>

\* C19: a request that normalizes to the empty sort state, the current state
\* not being empty, is written as the sort parameter holding the sentinel and
\* no direction parameter, and the resulting query string reads as the empty
\* sort state, not as the default.
C19_EmptyWritesSentinel ==
  (lastCall.made /\ Asked = <<>> /\ Was # <<>>)
    => LET after == URLSearchParams(searchParamsString)
       IN /\ get(after, sortParam) = Str(SORT_NONE_SENTINEL)
          /\ Len(SelectSeq(after, LAMBDA p : p.name = sortParam)) = 1
          /\ ~has(after, directionParam)
          /\ sorting(searchParamsString) = <<>>
          /\ router = <<[method |-> "replace", href |-> href(searchParamsString), scroll |-> FALSE]>>

C19_Witness ==
  /\ lastCall.made
  /\ lastCall.requested = <<ColumnSort("group", FALSE)>>
  /\ has(URLSearchParams(lastCall.searchParamsString), directionParam)
  /\ Was = <<ColumnSort("status", TRUE)>>
  /\ normalizedDefaultSorting = <<ColumnSort("name", FALSE)>>
  /\ sorting(searchParamsString) = <<>>

\* C20: a query string whose sort parameter is the sentinel reads as the empty
\* sort state, whatever the default and the direction parameter are.
C20_SentinelReadsEmpty ==
  get(URLSearchParams(searchParamsString), sortParam) = Str(SORT_NONE_SENTINEL)
    => sorting(searchParamsString) = <<>>

C20_Witness ==
  /\ ~lastCall.made
  /\ get(URLSearchParams(searchParamsString), sortParam) = Str(SORT_NONE_SENTINEL)
  /\ get(URLSearchParams(searchParamsString), directionParam) = Str("desc")
  /\ normalizedDefaultSorting # <<>>
  /\ SORT_NONE_SENTINEL \in allowedColumnIds
  /\ sorting(searchParamsString) = <<>>

\* the first entry of a sort state whose column is in the allow-list, as a
\* single-entry state, or the empty state when there is none
FirstAllowed(value) ==
  LET allowedAt == {i \in 1..Len(value) : value[i].id \in allowedColumnIds}
  IN IF allowedAt = {} THEN <<>>
     ELSE LET first == CHOOSE i \in allowedAt : \A j \in allowedAt : i <= j
          IN <<[id |-> value[first].id, desc |-> value[first].desc]>>

\* C21: a query string without the sort parameter reads as the normalized
\* default: the first allow-listed entry of the configured default alone, or
\* the empty state when the default is absent or has no allow-listed column.
C21_AbsentReadsDefault ==
  ~has(URLSearchParams(searchParamsString), sortParam)
    => /\ sorting(searchParamsString) = FirstAllowed(defaultSorting)
       /\ (defaultSorting = <<>> \/ \A i \in 1..Len(defaultSorting) :
                                       defaultSorting[i].id \notin allowedColumnIds)
            => sorting(searchParamsString) = <<>>

C21_Witness ==
  /\ ~lastCall.made
  /\ ~has(URLSearchParams(searchParamsString), sortParam)
  /\ has(URLSearchParams(searchParamsString), directionParam)
  /\ defaultSorting = <<ColumnSort("group", FALSE), ColumnSort("status", TRUE)>>
  /\ sorting(searchParamsString) = <<ColumnSort("status", TRUE)>>

\* C23: a query string whose sort parameter holds an allow-listed column id
\* reads as the single entry of that column, descending exactly when the
\* direction parameter is "desc"; without a direction parameter, or with any
\* other value, it reads as ascending.
C23_AllowedColumnReadsEntry ==
  LET searchParams == URLSearchParams(searchParamsString)
      sortValue == get(searchParams, sortParam)
      direction == get(searchParams, directionParam)
  IN (sortValue # Null /\ sortValue.value \in allowedColumnIds)
       => /\ Len(sorting(searchParamsString)) = 1
          /\ sorting(searchParamsString)[1].id = sortValue.value
          /\ sorting(searchParamsString)[1].desc = (direction = Str("desc"))

\* C23 as amended: it holds for every allow-listed column id other than the
\* sentinel; the sentinel reads as the empty state also when a column of the
\* allow-list is named like it.
C23_AllowedColumnExceptSentinel ==
  LET searchParams == URLSearchParams(searchParamsString)
      sortValue == get(searchParams, sortParam)
      direction == get(searchParams, directionParam)
  IN (sortValue # Null /\ sortValue.value \in allowedColumnIds)
       => IF sortValue.value = SORT_NONE_SENTINEL
          THEN sorting(searchParamsString) = <<>>
          ELSE /\ Len(sorting(searchParamsString)) = 1
               /\ sorting(searchParamsString)[1].id = sortValue.value
               /\ sorting(searchParamsString)[1].desc = (direction = Str("desc"))
               /\ direction = Null => ~sorting(searchParamsString)[1].desc
               /\ direction = Str("asc") => ~sorting(searchParamsString)[1].desc

C23_Witness ==
  /\ ~lastCall.made
  /\ get(URLSearchParams(searchParamsString), sortParam) = Str("status")
  /\ get(URLSearchParams(searchParamsString), directionParam) = Null
  /\ normalizedDefaultSorting = <<ColumnSort("status", TRUE)>>
  /\ sorting(searchParamsString) = <<ColumnSort("status", FALSE)>>

\* C24: the sort state is defined for the query string of every reachable
\* state, has at most one entry, and the column of that entry is in the
\* allow-list.
C24_SortingWithinAllowList ==
  \A query \in {searchParamsString, lastCall.searchParamsString} :
    /\ Len(sorting(query)) \in {0, 1}
    /\ \A i \in 1..Len(sorting(query)) :
         /\ sorting(query)[i].id \in allowedColumnIds
         /\ sorting(query)[i].desc \in BOOLEAN

C24_Witness ==
  /\ get(URLSearchParams(searchParamsString), sortParam) = Str("group")
  /\ get(URLSearchParams(searchParamsString), directionParam) = Str("desc")
  /\ allowedColumnIds = {"status"}
  /\ defaultSorting = <<ColumnSort("name", FALSE)>>
  /\ sorting(searchParamsString) = <<>>

\* C25: a requested sort state is normalized to its first entry whose column
\* is in the allow-list, earlier entries outside the allow-list being skipped,
\* and to the empty state when it has none; onSortingChange compares and
\* rewrites with the normalized state.
C25_NormalizesBeforeWrite ==
  lastCall.made
    => LET nextSorting == FirstAllowed(lastCall.requested)
       IN IF nextSorting = Was
          THEN router = <<>> /\ searchParamsString = lastCall.searchParamsString
          ELSE /\ router # <<>>
               /\ searchParamsString =
                    toString(rewrite(URLSearchParams(lastCall.searchParamsString), nextSorting))

C25_Witness ==
  /\ lastCall.made
  /\ lastCall.requested = <<ColumnSort("name", TRUE), ColumnSort("status", FALSE)>>
  /\ allowedColumnIds = {"status"}
  /\ Was = <<ColumnSort("status", TRUE)>>
  /\ sorting(searchParamsString) = <<ColumnSort("status", FALSE)>>

\* the sort parameter of a query string names a column outside the allow-list
InvalidColumn(query) ==
  LET sortValue == get(URLSearchParams(query), sortParam)
  IN /\ sortValue # Null
     /\ sortValue.value # ""
     /\ sortValue.value # SORT_NONE_SENTINEL
     /\ sortValue.value \notin allowedColumnIds

\* C22: a sort parameter that is present, is not the sentinel and names no
\* allow-listed column reads as the normalized default; the read navigates
\* nowhere and leaves the held query string and the location as they are.
C22_InvalidColumnReadsDefault ==
  /\ [](\A query \in {searchParamsString, rendered} :
          InvalidColumn(query) => sorting(query) = FirstAllowed(defaultSorting))
  /\ [][lastEvent' = "render"
          => /\ router' = <<>>
             /\ searchParamsString' = searchParamsString
             /\ location' = location]_vars

C22_Witness ==
  /\ lastEvent = "render"
  /\ InvalidColumn(rendered)
  /\ get(URLSearchParams(rendered), sortParam) = Str("group")
  /\ sorting(rendered) = <<ColumnSort("name", FALSE)>>
  /\ router = <<>>
  /\ searchParamsString = rendered
  /\ location = rendered

\* C26: after popstate the held query string is the location's, and the sort
\* state of the render that follows is read from it.
C26_PopstateResynchronizes ==
  /\ [](lastEvent = "popstate" => searchParamsString = location)
  /\ [][(lastEvent = "popstate" /\ lastEvent' = "render")
          => /\ rendered' = location
             /\ sorting(rendered') = sorting(location)]_vars

C26_Witness ==
  /\ lastEvent = "popstate"
  /\ lastCall.made
  /\ location = <<Segment("agents_sort", "status", TRUE), Segment("agents_dir", "desc", TRUE)>>
  /\ searchParamsString = location
  /\ rendered # location
  /\ sorting(rendered) = <<>>
  /\ sorting(searchParamsString) = <<ColumnSort("status", TRUE)>>

\* C27: onSortingChange navigates only when the normalized request differs
\* from the current sort state, and then exactly once, with router.replace,
\* to the path followed by "?" and the rewritten query string, or to the bare
\* path when the rewritten query string is empty.
C27_NavigatesByReplace ==
  lastCall.made
    => IF Asked = Was
       THEN router = <<>>
       ELSE /\ Len(router) = 1
            /\ router[1].method = "replace"
            /\ router[1].href.pathname = pathname
            /\ router[1].href.questionMark = (router[1].href.query # <<>>)
            /\ router[1].href.query =
                 toString(rewrite(URLSearchParams(lastCall.searchParamsString), Asked))
            /\ router[1].href.query = searchParamsString

C27_Witness ==
  /\ lastCall.made
  /\ lastCall.searchParamsString = <<Segment("agents_sort", "status", TRUE)>>
  /\ lastCall.requested = <<ColumnSort("name", FALSE)>>
  /\ Len(router) = 1
  /\ router[1].method = "replace"
  /\ router[1].href = [pathname |-> "/agents", questionMark |-> FALSE, query |-> <<>>]

\* the items of the first snapshot of the two attempts
Original ==
  LET first == context["m1"].previous.data.items
      second == context["m2"].previous.data.items
  IN IF Len(first) >= Len(second) THEN first ELSE second

MinusSucceeded(items) ==
  LET afterFirst == IF outcome["m1"] = "resolved"
                    THEN Filter(items, variables["m1"]) ELSE items
  IN IF outcome["m2"] = "resolved" THEN Filter(afterFirst, variables["m2"]) ELSE afterFirst

\* C28: two attempts on the same key, the later of which took its snapshot
\* while the optimistic write of the earlier stood; once both have run
\* onSuccess or onError, and no fetch having been started, the cached items
\* are the original items without those whose delete succeeded.
C28_ConcurrentDeletesConsistent ==
  ( /\ fetch.status = "idle"
    /\ \A a \in Attempts : pc[a] \in {"handled", "settled"}
    /\ \A a \in Attempts : WellFormed(context[a].previous)
    /\ context["m1"].previous # context["m2"].previous )
    => /\ WellFormed(cache)
       /\ cache.data.items = MinusSucceeded(Original)

\* C29: an onSortingChange of a render that is up to date with the held
\* string starts from the query string the location has at that time, and
\* leaves the parameters of other code in the location as they were.
C29_WriteClonesLocation ==
  (lastEvent = "call" /\ lastCall.searchParamsString = lastCall.held)
    => /\ lastCall.searchParamsString = lastCall.location
       /\ router # <<>> => Unrelated(location) = Unrelated(lastCall.location)

\* C30: after two calls of onSortingChange with no render between them, the
\* held query string and the location read as the second request.
C30_SecondCallWins ==
  (lastEvent = "call" /\ lastCall.second)
    => /\ sorting(searchParamsString) = Asked
       /\ sorting(location) = Asked

\* C31: an effective write of a sort state that equals the normalized default
\* leaves neither the sort nor the direction parameter in the query string,
\* also when the normalized default is empty.
C31_CanonicalForm ==
  (lastCall.made /\ Asked # Was /\ Asked = normalizedDefaultSorting)
    => /\ ~has(URLSearchParams(searchParamsString), sortParam)
       /\ ~has(URLSearchParams(searchParamsString), directionParam)

\* C31 as amended: the parameters are omitted for a default that is not
\* empty; the empty sort state is written as the sentinel, without a
\* direction parameter, also when the normalized default is empty.
C31_CanonicalFormUnlessEmpty ==
  (lastCall.made /\ Asked # Was /\ Asked = normalizedDefaultSorting)
    => LET after == URLSearchParams(searchParamsString)
       IN IF Asked = <<>>
          THEN /\ get(after, sortParam) = Str(SORT_NONE_SENTINEL)
               /\ ~has(after, directionParam)
          ELSE /\ ~has(after, sortParam)
               /\ ~has(after, directionParam)

C31_Witness ==
  /\ lastCall.made
  /\ defaultSorting = <<ColumnSort("name", FALSE)>>
  /\ allowedColumnIds = {"status"}
  /\ normalizedDefaultSorting = <<>>
  /\ Was = <<ColumnSort("status", TRUE)>>
  /\ Asked = <<>>
  /\ get(URLSearchParams(searchParamsString), sortParam) = Str(SORT_NONE_SENTINEL)
  /\ ~has(URLSearchParams(searchParamsString), directionParam)

\* C32: a sort parameter that holds the sentinel reads as the empty sort
\* state under every allow-list, one with a column named "none" included;
\* a sort on a column named "none" that is not the default is written as the
\* sort parameter "none" with a direction parameter.
C32_SentinelBeforeAllowList ==
  /\ get(URLSearchParams(searchParamsString), sortParam) = Str(SORT_NONE_SENTINEL)
       => sorting(searchParamsString) = <<>>
  /\ ( /\ lastCall.made
       /\ Asked # <<>>
       /\ Asked # Was
       /\ Asked # normalizedDefaultSorting
       /\ Asked[1].id = SORT_NONE_SENTINEL )
       => /\ get(URLSearchParams(searchParamsString), sortParam) = Str("none")
          /\ get(URLSearchParams(searchParamsString), directionParam)
               = Str(IF Asked[1].desc THEN "desc" ELSE "asc")

C32_Witness ==
  /\ lastCall.made
  /\ SORT_NONE_SENTINEL \in allowedColumnIds
  /\ Asked = <<ColumnSort("none", TRUE)>>
  /\ Was = <<ColumnSort("status", FALSE)>>
  /\ get(URLSearchParams(searchParamsString), sortParam) = Str("none")
  /\ get(URLSearchParams(searchParamsString), directionParam) = Str("desc")
  /\ sorting(searchParamsString) = <<>>

\* the controller's own parameters of a query string
Own(query) ==
  SelectSeq(query, LAMBDA segment : segment.name \in {sortParam, directionParam})

\* the parameters another controller keeps in the query string
OtherControllers ==
  { <<>>,
    <<Segment(otherSortParam, "status", TRUE)>>,
    <<Segment(otherSortParam, "none", TRUE),
      Segment(resolveDirectionParam("boards"), "desc", TRUE)>> }

\* C34: query strings that agree on the controller's own two parameters read
\* as the same sort state, whatever other parameters surround them.
C34_ReadsOwnParamsOnly ==
  \A query \in {searchParamsString, lastCall.searchParamsString} :
    /\ sorting(Own(query)) = sorting(query)
    /\ \A other \in OtherControllers :
         /\ sorting(other \o query) = sorting(query)
         /\ sorting(query \o other) = sorting(query)

C34_Witness ==
  /\ ~lastCall.made
  /\ searchParamsString = <<Segment("foo", "1", TRUE), Segment("agents_sort", "status", TRUE)>>
  /\ Own(searchParamsString) # searchParamsString
  /\ sorting(searchParamsString) = <<ColumnSort("status", FALSE)>>
  /\ sorting(<<Segment(otherSortParam, "none", TRUE)>> \o searchParamsString)
       = <<ColumnSort("status", FALSE)>>

\* C33: the optimistic write changes only the items and the total of the
\* entry's data; status, headers and the other fields of the data are those
\* of the previous entry, and the items left are the previous items other
\* than the deleted one, with their values and in their order.
C33_OptimisticWriteFrame ==
  \A a \in Attempts :
    (JustBegan(a) /\ "optimistic" \in wrote[a])
      => LET previous == context[a].previous
         IN /\ cache.defined
            /\ cache.status = previous.status
            /\ cache.headers = previous.headers
            /\ [cache EXCEPT !.data = previous.data] = previous
            /\ [cache.data EXCEPT !.items = previous.data.items,
                                  !.total = previous.data.total] = previous.data
            /\ cache.data.items =
                 SelectSeq(previous.data.items, LAMBDA item : item.id # variables[a])

C33_Witness ==
  \E a \in Attempts :
    /\ JustBegan(a)
    /\ wrote[a] = {"optimistic"}
    /\ variables[a] = "a"
    /\ context[a].previous = Entry(200, ListData(<<Item("b"), Item("a")>>, 3))
    /\ cache = Entry(200, ListData(<<Item("b")>>, 2))

\* C35: in the board access editor write access implies read access: for
\* every board's entry, for the all-boards flags, and for every entry of the
\* board access built for a submission.
C35_WriteImpliesRead ==
  /\ \A boardId \in Boards : entryOf(boardId).write => entryOf(boardId).read
  /\ allWrite => allRead
  /\ \A i \in 1..Len(submitted) :
       \A spec \in submitted[i].board_access : spec.can_write => spec.can_read

====
